---- MODULE Spec2Model ----
(***************************************************************************)
(* Model of the QR-scan pipeline: qrscan_producer.py publishes scan        *)
(* results onto the RabbitMQ queue 'qrscan'; rabbitmq_consumer.py consumes *)
(* them, calls the Flask endpoint and the Node.js script for each message  *)
(* and acknowledges the delivery.                                          *)
(*                                                                         *)
(* A message body is a sequence of bytes.  The bytes that matter to the    *)
(* code are kept apart: letters ("a", "b"), the field delimiter (","),     *)
(* white space (" ") and a byte that is not valid UTF-8 ("FF").            *)
(***************************************************************************)
EXTENDS Integers, Sequences, FiniteSets, TLC

\* Bounds of the model.
MaxPublish == 2      \* messages the producer publishes in one run
MaxKills == 1        \* times the consumer process is killed from outside
MaxFieldLen == 1     \* bytes in the area and in the station of a wire string

\* Bodies the acquisition source can hand to the producer.
WellFormedAB == <<"a", ",", "b">>
NoDelimiter == <<"a">>
ExtraDelimiter == <<"a", ",", "b", ",", "a">>
EmptyArea == <<",", "b">>
NotUtf8 == <<"FF">>

Bodies == {WellFormedAB, NoDelimiter, ExtraDelimiter, EmptyArea, NotUtf8}

\* scan_qr_code() returns a body, or an empty (falsy) result.
ScanResults == Bodies \cup {<<>>}

\* What requests.get can do: answer with a status code (whatever the code,
\* process_message only prints it), or raise.
HttpOutcomes == {"200", "404", "RequestException"}

\* What subprocess.run can do: the script exits with a code, or the launch raises.
NodeOutcomes == {"exit0", "exit1", "OSError"}

\* result.stderr of a script that ran: empty, or some text.
StderrOutputs == {"empty", "text"}

----------------------------------------------------------------------------
\* Pure functions of the consumer.

\* bytes.decode(): raises UnicodeDecodeError on a byte that is not UTF-8.
decode_raises(body) == \E i \in 1..Len(body) : body[i] = "FF"

RECURSIVE lstrip(_)
lstrip(s) ==
  IF s = <<>> THEN s
  ELSE IF Head(s) = " " THEN lstrip(Tail(s)) ELSE s

RECURSIVE rstrip(_)
rstrip(s) ==
  IF s = <<>> THEN s
  ELSE IF s[Len(s)] = " " THEN rstrip(SubSeq(s, 1, Len(s) - 1)) ELSE s

\* str.strip()
strip(s) == rstrip(lstrip(s))

RECURSIVE split_acc(_, _)
split_acc(s, cur) ==
  IF s = <<>> THEN <<cur>>
  ELSE IF Head(s) = "," THEN <<cur>> \o split_acc(Tail(s), <<>>)
  ELSE split_acc(Tail(s), Append(cur, Head(s)))

\* str.split(',')
split(s) == split_acc(s, <<>>)

\* The body used as it is, without strip().
query_param_raw(body) == body

\* query_param = body.strip()
query_param(body) == strip(body)

\* op_area, _ = query_param.split(','): ValueError unless exactly two parts.
unpack_raises(body) == Len(split(query_param(body))) # 2

\* The station passed where the area belongs.
op_area_second(body) == split(query_param(body))[2]

\* The first part unpacked from the split.
op_area(body) == split(query_param(body))[1]

\* The second part, unpacked into '_'.
station(body) == split(query_param(body))[2]

\* node_cmd without the interpreter and the script path.
node_args(body) == <<"--add", "--db", op_area(body)>>

\* flask_url without FLASK_URL_BASE.
flask_query(body) == query_param(body)

----------------------------------------------------------------------------
VARIABLES
  prodPc,       \* producer: "scan", "send" or "terminated"
  qr_data,      \* producer: result of the last scan_qr_code()
  body,         \* body[m]: body of the m-th published message
  queue,        \* broker: ready messages, head first
  unacked,      \* broker: messages delivered and awaiting an ack, oldest first
  consumer,     \* consumer process: "stopped", "consuming", or the exception that ended it
  nextTag,      \* broker: delivery tag of the next delivery on the channel
  inbox,        \* consumer: deliveries received on the channel and not finalized
  acked,        \* deliveries the consumer has acked, in ack order
  httpCalls,    \* httpCalls[m]: requests.get calls made for message m
  nodeRuns,     \* nodeRuns[m]: subprocess.run calls made for message m
  kills         \* times the consumer was killed

vars ==
  <<prodPc, qr_data, body, queue, unacked, consumer, nextTag, inbox, acked,
    httpCalls, nodeRuns, kills>>

prodVars == <<prodPc, qr_data>>
consVars == <<consumer, nextTag, inbox, acked, httpCalls, nodeRuns, kills>>

Published == Len(body)
Msgs == 1..Published

\* basic_consume asking for automatic acknowledgment.
auto_ack_on == TRUE

\* basic_consume(queue, on_message_callback) leaves auto_ack at its default.
auto_ack == FALSE

Init ==
  /\ prodPc = "scan"
  /\ qr_data = <<>>
  /\ body = <<>>
  /\ queue = <<>>
  /\ unacked = <<>>
  /\ consumer = "stopped"
  /\ nextTag = 1
  /\ inbox = <<>>
  /\ acked = <<>>
  /\ httpCalls = <<>>
  /\ nodeRuns = <<>>
  /\ kills = 0

----------------------------------------------------------------------------
\* Producer (qrscan_producer.py).

\* Every scan result is sent on, the empty one too.
truthy_always(r) == TRUE

\* 'if qr_data:' is false for None and for the empty string.
truthy(r) == r # <<>>

\* main: qr_data = scan_qr_code(); if qr_data: send_to_rabbitmq(qr_data)
scan_qr_code ==
  /\ prodPc = "scan"
  /\ \E r \in ScanResults :
       /\ truthy(r) => Published < MaxPublish
       /\ qr_data' = r
       /\ prodPc' = IF truthy(r) THEN "send" ELSE "scan"
  /\ UNCHANGED <<body, queue, unacked>>
  /\ UNCHANGED consVars

\* send_to_rabbitmq: connect, declare, publish, close.
send_to_rabbitmq ==
  /\ prodPc = "send"
  /\ body' = Append(body, qr_data)
  /\ queue' = Append(queue, Published + 1)
  /\ httpCalls' = Append(httpCalls, 0)
  /\ nodeRuns' = Append(nodeRuns, 0)
  /\ prodPc' = "scan"
  /\ qr_data' = <<>>   \* overwritten by the next scan before it is read
  /\ UNCHANGED <<unacked, consumer, nextTag, inbox, acked, kills>>

\* send_to_rabbitmq when BlockingConnection raises: nothing catches it,
\* the exception leaves main and the producer process ends.
send_connection_error ==
  /\ prodPc = "send"
  /\ prodPc' = "terminated"
  /\ UNCHANGED <<qr_data, body, queue, unacked>>
  /\ UNCHANGED consVars

----------------------------------------------------------------------------
\* Broker side of the consumer's channel.

\* Value of a local of process_message that has not been assigned yet.
NotCalled == <<"none">>

new_delivery(tag, m) ==
  [tag |-> tag, id |-> m, pc |-> "buffered", http |-> "pending", node |-> "pending",
   url |-> NotCalled, cmd |-> NotCalled, fields |-> NotCalled,
   log |-> "none"]

\* The connection of the consumer is gone: the broker puts every message
\* that still awaits an ack back at the head of the queue.
requeued == unacked \o queue

\* No basic_qos is set, so the broker pushes ready messages to the consumer
\* without waiting for acks; they wait in the channel until dispatched.
basic_deliver ==
  /\ consumer = "consuming"
  /\ queue # <<>>
  /\ inbox' = Append(inbox, new_delivery(nextTag, Head(queue)))
  /\ unacked' = IF auto_ack THEN unacked ELSE Append(unacked, Head(queue))
  /\ queue' = Tail(queue)
  /\ nextTag' = nextTag + 1
  /\ UNCHANGED <<body, consumer, acked, httpCalls, nodeRuns, kills>>
  /\ UNCHANGED prodVars

RemoveAt(s, i) == SubSeq(s, 1, i - 1) \o SubSeq(s, i + 1, Len(s))
Without(s, m) == SelectSeq(s, LAMBDA x : x # m)

----------------------------------------------------------------------------
\* Consumer (rabbitmq_consumer.py).

\* main: connect, declare the queue, basic_consume, start_consuming.
consumer_main ==
  /\ consumer # "consuming"
  /\ \E ok \in BOOLEAN :
       consumer' = IF ok THEN "consuming" ELSE "AMQPConnectionError"
  /\ nextTag' = 1
  /\ inbox' = <<>>
  /\ UNCHANGED <<body, queue, unacked, acked, httpCalls, nodeRuns, kills>>
  /\ UNCHANGED prodVars

InHandler(d) == d.pc \in {"http", "http_wait", "node", "node_wait", "ack"}

\* Callbacks run on a pool: any waiting delivery may be dispatched.
dispatchable_pool(i) == inbox[i].pc = "buffered"

\* start_consuming runs the callbacks on one thread: the next delivery is
\* dispatched when the previous callback has returned, oldest first.
dispatchable(i) ==
  /\ inbox[i].pc = "buffered"
  /\ \A j \in 1..Len(inbox) : j # i => (j > i /\ inbox[j].pc = "buffered")

\* callback: body.decode() and entry into process_message.
callback_decode(i) ==
  /\ consumer = "consuming"
  /\ dispatchable(i)
  /\ IF decode_raises(body[inbox[i].id])
     THEN \* UnicodeDecodeError leaves callback, start_consuming and main.
          /\ consumer' = "UnicodeDecodeError"
          /\ queue' = requeued
          /\ unacked' = <<>>
          /\ inbox' = <<>>
     ELSE /\ inbox' = [inbox EXCEPT ![i].pc = "http"]
          /\ UNCHANGED <<consumer, queue, unacked>>
  /\ UNCHANGED <<body, nextTag, acked, httpCalls, nodeRuns, kills>>
  /\ UNCHANGED prodVars

\* One try block around both actions: an exception in requests.get ends
\* process_message.
after_http_abort(d, o) ==
  IF o = "RequestException"
  THEN [d EXCEPT !.http = o, !.pc = "ack"]
  ELSE [d EXCEPT !.http = o, !.pc = "node"]

\* process_message, step 1: requests.get inside try/except Exception.
after_http(d, o) == [d EXCEPT !.http = o, !.pc = "node"]

\* flask_url = FLASK_URL_BASE + query_param, the URL of requests.get.
with_url(d, b) == [d EXCEPT !.url = flask_query(b)]

requests_get(i) ==
  /\ consumer = "consuming"
  /\ inbox[i].pc = "http"
  /\ \E o \in HttpOutcomes :
       inbox' = [inbox EXCEPT ![i] = after_http(with_url(@, body[inbox[i].id]), o)]
  /\ httpCalls' = [httpCalls EXCEPT ![inbox[i].id] = @ + 1]
  /\ UNCHANGED <<body, queue, unacked, consumer, nextTag, acked, nodeRuns, kills>>
  /\ UNCHANGED prodVars

\* requests.get(flask_url) is given no timeout: when the service never
\* answers, the call never returns.
requests_get_blocks(i) ==
  /\ consumer = "consuming"
  /\ inbox[i].pc = "http"
  /\ inbox' = [inbox EXCEPT ![i] = [with_url(@, body[inbox[i].id]) EXCEPT !.pc = "http_wait"]]
  /\ httpCalls' = [httpCalls EXCEPT ![inbox[i].id] = @ + 1]
  /\ UNCHANGED <<body, queue, unacked, consumer, nextTag, acked, nodeRuns, kills>>
  /\ UNCHANGED prodVars

\* process_message, step 2: split and subprocess.run inside try/except Exception.
after_node(d, o) == [d EXCEPT !.node = o, !.pc = "ack"]

\* What process_message prints about the script: "Error running Node
\* script" in the except branch, "Node script error:" when result.stderr is
\* not empty, the output alone otherwise.  result.returncode is not read.
node_log(o, e) ==
  IF o = "OSError" THEN "Error running Node script"
  ELSE IF e # "empty" THEN "Node script error"
  ELSE "Node script output"

with_log(d, o, e) == [d EXCEPT !.log = node_log(o, e)]

\* node_cmd, the argument list of subprocess.run.
with_cmd(d, b) ==
  [d EXCEPT !.cmd = node_args(b), !.fields = <<op_area(b), station(b)>>]

subprocess_run(i) ==
  /\ consumer = "consuming"
  /\ inbox[i].pc = "node"
  /\ IF unpack_raises(body[inbox[i].id])
     THEN \* ValueError is caught: the script is not run.
          /\ inbox' = [inbox EXCEPT ![i] = after_node(@, "ValueError")]
          /\ UNCHANGED nodeRuns
     ELSE /\ \E o \in NodeOutcomes, e \in StderrOutputs :
               /\ o = "OSError" => e = "empty"
               /\ inbox' = [inbox EXCEPT ![i] =
                              after_node(with_log(with_cmd(@, body[inbox[i].id]), o, e), o)]
          /\ nodeRuns' = [nodeRuns EXCEPT ![inbox[i].id] = @ + 1]
  /\ UNCHANGED <<body, queue, unacked, consumer, nextTag, acked, httpCalls, kills>>
  /\ UNCHANGED prodVars

\* subprocess.run(node_cmd, ...) is given no timeout: when the script never
\* exits, the call never returns.
subprocess_run_blocks(i) ==
  /\ consumer = "consuming"
  /\ inbox[i].pc = "node"
  /\ ~unpack_raises(body[inbox[i].id])
  /\ inbox' = [inbox EXCEPT ![i] = [with_cmd(@, body[inbox[i].id]) EXCEPT !.pc = "node_wait"]]
  /\ nodeRuns' = [nodeRuns EXCEPT ![inbox[i].id] = @ + 1]
  /\ UNCHANGED <<body, queue, unacked, consumer, nextTag, acked, httpCalls, kills>>
  /\ UNCHANGED prodVars

\* basic_ack issued without waiting for process_message.
ack_ready_early(d) == InHandler(d)

\* callback: basic_ack follows the return of process_message.
ack_ready(d) == d.pc = "ack"

\* callback: ch.basic_ack(delivery_tag=method.delivery_tag), whatever happened.
ack_decision(d) == "Ack"

\* A tag other than the one of the delivery in hand.
ack_tag_next(d) == d.tag + 1

\* delivery_tag=method.delivery_tag, the tag of the delivery in hand.
ack_tag(d) == d.tag

basic_ack(i) ==
  /\ consumer = "consuming"
  /\ ack_ready(inbox[i])
  /\ acked' = Append(acked, [id |-> inbox[i].id, tag |-> ack_tag(inbox[i]),
                             http |-> inbox[i].http, node |-> inbox[i].node,
                             url |-> inbox[i].url, cmd |-> inbox[i].cmd,
                             fields |-> inbox[i].fields,
                             decision |-> ack_decision(inbox[i])])
  /\ unacked' = Without(unacked, inbox[i].id)
  /\ inbox' = RemoveAt(inbox, i)
  /\ UNCHANGED <<body, queue, consumer, nextTag, httpCalls, nodeRuns, kills>>
  /\ UNCHANGED prodVars

\* The consumer process is stopped from outside (Ctrl-C, kill, power loss)
\* wherever it is: nothing in main or callback handles a stop request.
kill_consumer ==
  /\ consumer = "consuming"
  /\ kills < MaxKills
  /\ kills' = kills + 1
  /\ consumer' = "stopped"
  /\ queue' = requeued
  /\ unacked' = <<>>
  /\ inbox' = <<>>
  /\ UNCHANGED <<body, nextTag, acked, httpCalls, nodeRuns>>
  /\ UNCHANGED prodVars

----------------------------------------------------------------------------
\* Vocabulary of the specification, used to state the properties.

HttpKind(o) ==
  CASE o = "200" -> "Success"
    [] o = "404" -> "PermanentFailure"
    [] OTHER -> "TransientFailure"

NodeKind(o) == IF o = "exit0" THEN "Success" ELSE "TransientFailure"

Combine(h, n) ==
  IF h = "Success" /\ n = "Success" THEN "Success"
  ELSE IF h = "TransientFailure" \/ n = "TransientFailure" THEN "TransientFailure"
  ELSE "PermanentFailure"

DecisionFor(result) ==
  CASE result = "Success" -> "Ack"
    [] result = "TransientFailure" -> "Requeue"
    [] OTHER -> "DeadLetter"

\* Exactly two non-empty fields around one delimiter.
TwoFields(b) ==
  LET parts == split(strip(b))
  IN  /\ Len(parts) = 2
      /\ strip(parts[1]) # <<>>
      /\ strip(parts[2]) # <<>>

WellFormed(b) == ~decode_raises(b) /\ TwoFields(b)
Malformed(b) == ~decode_raises(b) /\ ~TwoFields(b)

Range(s) == {s[i] : i \in 1..Len(s)}
AckedIds == {acked[k].id : k \in 1..Len(acked)}

----------------------------------------------------------------------------
\* C1: a delivery is acked only after its HTTP call and its process
\* invocation have both ended (returned or failed); no acked delivery has an
\* action that is still pending.
AckAfterBothActions ==
  \A k \in 1..Len(acked) :
    acked[k].http # "pending" /\ acked[k].node # "pending"

\* A delivery was acked after both of its actions had failed.
AckAfterBothActionsWitness ==
  \E k \in 1..Len(acked) :
    acked[k].http = "RequestException" /\ acked[k].node = "exit1"

\* C2: a delivery is acked only if both actions succeeded for it, or it
\* repeats an event that was already completed; a delivery with a failed
\* action is not acked.
AckedOnlyOnSuccess ==
  \A k \in 1..Len(acked) :
    \/ acked[k].http = "200" /\ acked[k].node = "exit0"
    \/ \E j \in 1..(k - 1) :
         /\ query_param(body[acked[j].id]) = query_param(body[acked[k].id])
         /\ acked[j].http = "200" /\ acked[j].node = "exit0"

\* C3: the deliveries of one well-formed event make, together, at most one
\* HTTP call and at most one process invocation.
ExactlyOneExecution ==
  \A m, n \in Msgs :
    (WellFormed(body[m]) /\ query_param(body[m]) = query_param(body[n])) =>
      IF m = n
      THEN httpCalls[m] <= 1 /\ nodeRuns[m] <= 1
      ELSE httpCalls[m] + httpCalls[n] <= 1 /\ nodeRuns[m] + nodeRuns[n] <= 1

\* C4: a delivery whose actions both ended in a transient failure is
\* requeued or dead-lettered, never acked.
TransientFailureNotAcked ==
  \A k \in 1..Len(acked) :
    ~(/\ HttpKind(acked[k].http) = "TransientFailure"
      /\ NodeKind(acked[k].node) = "TransientFailure")

\* C5: for a malformed message neither the HTTP GET nor the process
\* invocation is performed.
MalformedNeverExecuted ==
  \A m \in Msgs :
    Malformed(body[m]) => (httpCalls[m] = 0 /\ nodeRuns[m] = 0)

\* C6: when the consumer goes down, every message it had received and not
\* yet acked is in the queue afterwards, wherever the handler was.
CrashRequeues ==
  [][(consumer = "consuming" /\ consumer' # "consuming") =>
       \A i \in 1..Len(inbox) : inbox[i].id \in Range(queue')]_vars

\* A message whose handler was cut between the HTTP call and the process
\* invocation has been delivered again and is in the handler once more.
CrashRequeuesWitness ==
  \E i \in 1..Len(inbox) :
    /\ inbox[i].pc = "http"
    /\ httpCalls[inbox[i].id] = 1
    /\ nodeRuns[inbox[i].id] = 0
    /\ kills = 1

\* C7: the decision taken for a delivery whose two actions ran is the one
\* the combination policy gives for their outcomes.
CombinationPolicy ==
  \A k \in 1..Len(acked) :
    acked[k].node # "ValueError" =>
      acked[k].decision =
        DecisionFor(Combine(HttpKind(acked[k].http), NodeKind(acked[k].node)))

\* C8: at most one delivery is inside the handler, and it is older than
\* every delivery still waiting in the channel.
OneAtATimeInOrder ==
  /\ Cardinality({i \in 1..Len(inbox) : InHandler(inbox[i])}) <= 1
  /\ \A i, j \in 1..Len(inbox) :
       (InHandler(inbox[i]) /\ inbox[j].pc = "buffered") =>
         inbox[i].tag < inbox[j].tag

\* One delivery is in the handler while a later one waits in the channel.
OneAtATimeInOrderWitness ==
  /\ Len(inbox) >= 2
  /\ InHandler(inbox[1])
  /\ inbox[2].pc = "buffered"

\* C9: a failed publish does not end the producer loop.
ProducerKeepsRunning == prodPc # "terminated"

\* C10: decoding a body never raises in the consumer.
DecodeNeverRaises == consumer # "UnicodeDecodeError"

----------------------------------------------------------------------------
\* Wire strings "<area>,<station>" and the consumer run on a queue of two.

FieldBytes == {"a", " "}

\* Non-empty fields without a delimiter.
Fields == UNION {[1..n -> FieldBytes] : n \in 1..MaxFieldLen}

\* What the producer publishes for an area and a station.
wire(A, B) == A \o <<",">> \o B

WireStrings == {wire(A, B) : A \in Fields, B \in Fields}

\* The area and the station a wire string was made of.
DelimiterAt(b) == CHOOSE k \in 1..Len(b) : b[k] = ","
AreaOf(b) == SubSeq(b, 1, DelimiterAt(b) - 1)
StationOf(b) == SubSeq(b, DelimiterAt(b) + 1, Len(b))

\* Two wire strings were published earlier and wait in the queue.
CodecInit ==
  /\ prodPc = "scan"
  /\ qr_data = <<>>
  /\ \E w1 \in WireStrings, w2 \in WireStrings : body = <<w1, w2>>
  /\ queue = <<1, 2>>
  /\ unacked = <<>>
  /\ consumer = "stopped"
  /\ nextTag = 1
  /\ inbox = <<>>
  /\ acked = <<>>
  /\ httpCalls = <<0, 0>>
  /\ nodeRuns = <<0, 0>>
  /\ kills = 0

CodecNext ==
  \/ consumer_main
  \/ basic_deliver
  \/ \E i \in 1..Len(inbox) : callback_decode(i)
  \/ \E i \in 1..Len(inbox) : requests_get(i)
  \/ \E i \in 1..Len(inbox) : subprocess_run(i)
  \/ \E i \in 1..Len(inbox) : basic_ack(i)

CodecSpec == CodecInit /\ [][CodecNext]_vars

PendingSurviveRestart ==
  \A m \in Msgs : m \in Range(queue) \cup Range(unacked) \cup AckedIds

\* C16: the script is invoked with exactly --add --db <area>, two events
\* with the same area get the same invocation whatever their stations, and
\* the HTTP query carries the area and the station.
InvocationFromAreaOnly ==
  /\ \A k \in 1..Len(acked) :
       LET A == AreaOf(body[acked[k].id])
           B == StationOf(body[acked[k].id])
       IN  /\ acked[k].cmd # NotCalled =>
                acked[k].cmd = <<"--add", "--db", lstrip(A)>>
           /\ acked[k].url # NotCalled =>
                acked[k].url = lstrip(A) \o <<",">> \o rstrip(B)
  /\ \A k, j \in 1..Len(acked) :
       (/\ acked[k].cmd # NotCalled
        /\ acked[j].cmd # NotCalled
        /\ AreaOf(body[acked[k].id]) = AreaOf(body[acked[j].id])) =>
         acked[k].cmd = acked[j].cmd

\* Two events with one area and two stations have both been executed.
InvocationFromAreaOnlyWitness ==
  \E k, j \in 1..Len(acked) :
    /\ acked[k].cmd # NotCalled
    /\ acked[j].cmd # NotCalled
    /\ AreaOf(body[acked[k].id]) = AreaOf(body[acked[j].id])
    /\ StationOf(body[acked[k].id]) # StationOf(body[acked[j].id])
    /\ acked[k].url # acked[j].url

\* C12: nothing raised while a message is handled leaves the handler: the
\* consumer stops consuming only when it is killed.
HandlerNeverStopsConsumer ==
  [][(consumer = "consuming" /\ kills' = kills) => consumer' = "consuming"]_vars

\* C13: no handler waits without bound: no delivery is inside a call to the
\* HTTP service or to the script that will never return.
BoundedWait ==
  \A i \in 1..Len(inbox) : inbox[i].pc \notin {"http_wait", "node_wait"}

\* C14: the consumer stops only when no delivery is in the handler.
GracefulShutdown ==
  [][(consumer = "consuming" /\ consumer' = "stopped") =>
       \A i \in 1..Len(inbox) : ~InHandler(inbox[i])]_vars

\* C17: for a well-formed event, whatever the HTTP call did, the process
\* invocation is attempted in the same execution, and the HTTP call stays
\* made whatever the process invocation did.
BothActionsAttempted ==
  /\ \A i \in 1..Len(inbox) :
       \/ inbox[i].pc # "ack"
       \/ /\ inbox[i].http \in HttpOutcomes
          /\ inbox[i].node \in NodeOutcomes
          /\ httpCalls[inbox[i].id] >= 1
          /\ nodeRuns[inbox[i].id] >= 1
       \/ ~WellFormed(body[inbox[i].id])
  /\ \A k \in 1..Len(acked) :
       \/ acked[k].http \in HttpOutcomes /\ acked[k].node \in NodeOutcomes
       \/ ~WellFormed(body[acked[k].id])

\* The HTTP call raised and the script was launched all the same, and failed.
BothActionsAttemptedWitness ==
  \E i \in 1..Len(inbox) :
    /\ inbox[i].pc = "ack"
    /\ WellFormed(body[inbox[i].id])
    /\ inbox[i].http = "RequestException"
    /\ inbox[i].node = "exit1"

\* C19: the exit code alone decides the outcome of the process action: a
\* script that exits with a non-zero code is treated as failed (reported as
\* an error of the action, or the delivery not acked) even when its error
\* stream is empty, and a script that exits with 0 is not reported as failed.
ExitCodeAuthoritative ==
  \A i \in 1..Len(inbox) :
    /\ (inbox[i].pc = "ack" /\ inbox[i].node = "exit1") =>
         \/ inbox[i].log = "Error running Node script"
         \/ ack_decision(inbox[i]) # "Ack"
    /\ (inbox[i].pc = "ack" /\ inbox[i].node = "exit0") =>
         inbox[i].log # "Error running Node script"

\* C20: a delivery leaves the handler of a running consumer only by being
\* acked, once, after process_message returned, with its own delivery tag and
\* while the broker still holds it unacked; nothing else is ever acked.
FinalizedOnceWithOwnTag ==
  [][\/ inbox' = inbox /\ acked' = acked
     \/ /\ \A i \in 1..Len(inbox) :
             (/\ consumer = "consuming"
              /\ consumer' = "consuming"
              /\ \A j \in 1..Len(inbox') : inbox'[j].tag # inbox[i].tag) =>
               /\ inbox[i].pc = "ack"
               /\ Len(acked') = Len(acked) + 1
               /\ SubSeq(acked', 1, Len(acked)) = acked
               /\ acked'[Len(acked')].id = inbox[i].id
               /\ acked'[Len(acked')].tag = inbox[i].tag
               /\ inbox[i].id \in Range(unacked)
               /\ inbox[i].id \notin Range(unacked')
               /\ inbox[i].id \notin AckedIds
        /\ acked' # acked =>
             \E i \in 1..Len(inbox) :
               /\ inbox[i].pc = "ack"
               /\ Len(inbox') = Len(inbox) - 1
               /\ acked'[Len(acked')].tag = inbox[i].tag]_vars

\* Two deliveries have been acked, one of them after the consumer was
\* killed and the message delivered again.
FinalizedOnceWithOwnTagWitness ==
  /\ Len(acked) = 2
  /\ acked[1].id # acked[2].id
  /\ kills = 1
  /\ \E m \in AckedIds : httpCalls[m] = 2

\* C18: a message is published only by sending a non-empty scan result, the
\* send appends exactly one message with that result as its body at the tail
\* of the queue, and a poll publishes nothing.
OnePublishPerResult ==
  [][/\ (prodPc = "send" /\ prodPc' = "scan") =>
          /\ body' = Append(body, qr_data)
          /\ queue' = Append(queue, Len(body) + 1)
     /\ body' # body => (prodPc = "send" /\ qr_data # <<>> /\ prodPc' = "scan")
     /\ (prodPc = "scan" /\ prodPc' # prodPc) =>
          (body' = body /\ queue' = queue /\ prodPc' = "send" /\ qr_data' # <<>>)]_vars

\* Two different results have been published, and wait in acquisition order.
OnePublishPerResultWitness ==
  /\ Published = 2
  /\ body[1] # body[2]
  /\ queue = <<1, 2>>
  /\ prodPc = "scan"

Next ==
  \/ scan_qr_code
  \/ send_to_rabbitmq
  \/ send_connection_error
  \/ basic_deliver
  \/ consumer_main
  \/ \E i \in 1..Len(inbox) : callback_decode(i)
  \/ \E i \in 1..Len(inbox) : requests_get(i)
  \/ \E i \in 1..Len(inbox) : subprocess_run(i)
  \/ \E i \in 1..Len(inbox) : basic_ack(i)
  \/ kill_consumer

Spec == Init /\ [][Next]_vars

\* queue_declare(queue=RABBITMQ_QUEUE), in the producer and in the consumer:
\* the arguments are the same and durable is left at its default.
durable == FALSE

\* basic_publish(exchange, routing_key, body) sets no delivery mode.
persistent == FALSE

\* The broker restarts: every connection is lost, and only persistent
\* messages of a durable queue are still there afterwards.
broker_restart ==
  /\ queue' = IF durable /\ persistent THEN requeued ELSE <<>>
  /\ unacked' = <<>>
  /\ inbox' = <<>>
  /\ consumer' = IF consumer = "consuming" THEN "ConnectionClosed" ELSE consumer
  /\ UNCHANGED <<body, nextTag, acked, httpCalls, nodeRuns, kills>>
  /\ UNCHANGED prodVars

\* The pipeline with a service, a script and a broker that can fail to
\* answer.
Faults ==
  \/ broker_restart
  \/ \E i \in 1..Len(inbox) : requests_get_blocks(i)
  \/ \E i \in 1..Len(inbox) : subprocess_run_blocks(i)

FaultNext == Next \/ Faults

FaultSpec == Init /\ [][FaultNext]_vars
====
